---- MODULE Spec2Model ----
(***************************************************************************)
(* A model of the Onion alert bot: the two revisions main.py and bot.py,   *)
(* which share the persisted file data.json.  One run of one revision is   *)
(* modelled at a time (variable prog).  Every step between two awaits of   *)
(* the asyncio event loop is one atomic action.                            *)
(*                                                                         *)
(* Python dicts are insertion ordered: users is a sequence of records,     *)
(* each carrying its dict key.  A key is <<"int", n>> (the Telegram id the  *)
(* handlers use) or <<"str", n>> (the same id after a JSON round trip).     *)
(* None is modelled by the falsy value of the field's type: 0 for a        *)
(* chat_id, "" for a wallet, NoKey for a referrer; bsc_wallet, which the   *)
(* webhook reads with a default of "", keeps None apart from "".  A key    *)
(* that a bot.py record does not have (connect_challenge, connect_expiry)  *)
(* is "" or 0.                                                             *)
(* Money is counted in thousandths of a dollar.                            *)
(***************************************************************************)
EXTENDS Integers, Sequences, FiniteSets, TLC

VARIABLES
    prog,         \* "main" or "bot": the revision that is running
    clock,        \* time.time(), in seconds
    users,        \* data["users"]
    revenue,      \* data["revenue"]
    seen,         \* seen: mint -> timestamp
    token_state,  \* main.py data["token_state"]: mint -> [sent, as_list]
    volume_hist,  \* main.py scanner local: mint -> last 4 volume samples
    scan,         \* the scanner task: its position and locals
    bcasts,       \* the broadcasts suspended in a send
    save_lock,    \* who holds save_lock
    disk,         \* data.json
    alerts,       \* history: <<mint, kind>> -> broadcasts started in this run
    delivered,    \* history: uid -> alerts delivered to that person in this run
    restarts_left,\* how many restarts of the process are still to come
    token_db,     \* bot.py token_db: mint -> token record
    ready_queue,  \* bot.py ready_queue
    watchlist,    \* bot.py watchlist, in insertion order
    tasks,        \* bot.py process_token tasks created and not yet run
    monitor,      \* bot.py watchlist_monitor task: its position and locals
    totals,       \* bot.py data["total_trades"], data["wins"]
    buying,       \* bot.py jupiter_buy calls in progress
    seller,       \* bot.py check_auto_sell task: its position
    webhook       \* webhook.py: whether it is deployed, its last response

botvars == <<token_db, ready_queue, watchlist, tasks, monitor, totals>>
tradevars == <<buying, seller>>

vars == <<prog, clock, users, revenue, seen, token_state, volume_hist, scan,
          bcasts, save_lock, disk, alerts, delivered, restarts_left,
          token_db, ready_queue, watchlist, tasks, monitor, totals, buying, seller,
          webhook>>

-----------------------------------------------------------------------------
(* Bounds of the model *)

MainMaxTicks == 1
BotMaxTicks == 3
MaxPairs == 2
MaxRestarts == 1
MaxCount == 4
MaxJoins == 1
MaxTrades == 2

UIDs == {1, 2}
Mints == {"mA", "mB"}
\* who sends a command: <<uid, chat_id, username>>; 99 is a group chat, and
\* "user1" is what main.py uses for a sender without a username
Senders == { <<1, 1, "alice">>, <<1, 99, "user1">>, <<2, 2, "bob">> }

(* Program constants *)
PRICE_PREMIUM == 29990
REFERRAL_COMMISSION_PCT == 20
MIN_FDVS_SNIPE == 2500
MAX_VOL_SNIPE == 80
MIN_VOL_CONFIRM == 250
MIN_FDVS_CONFIRM == 8000
MIN_VOL_PUMP == 700
MIN_WHALE_USD == 1200
SEEN_TTL == 3600
MainTick == 3700
BotTick == 300
PAID_DAYS_SECONDS == 2592000
HIST_MAXLEN == 4

\* bot.py
DEFAULT_TP == 280           \* 2.8, in hundredths
DEFAULT_SL == 38            \* 0.38, in hundredths
DISCOVER_MAX_AGE == 600
DISCOVER_MIN_FDV == 1000
DISCOVER_MAX_FDV == 3000000
LOW_MC_FDV == 50000
LOW_MC_MIN_AGE == 5
LOW_MC_MAX_AGE == 70
MID_MC_MIN_AGE == 10
MID_MC_MAX_AGE == 360
ALERT_MIN_FDV == 5000
ALERT_MAX_FDV == 2000000
ALERT_MAX_VOL == 25000
ALERT_MIN_HOLDERS == 5
ALERT_LIQ_PCT == 20
WATCH_DURATION == 900
\* the filter settings at the top of bot.py
BOT_MIN_FDVS_SNIPE == 5000
BOT_MAX_FDVS_SNIPE == 3000000
BOT_LIQ_FDV_PCT == 20
BOT_MAX_VOL_SNIPE == 40000
BOT_MIN_HOLDERS == 10
BUY_ATTEMPTS == 3
WIN_MULT == 150

-----------------------------------------------------------------------------
(* Insertion-ordered dict *)

IntKey(uid) == <<"int", uid>>
StrKey(uid) == <<"str", uid>>
NoKey == <<"none", 0>>
AllKeys == {IntKey(u) : u \in UIDs} \cup {StrKey(u) : u \in UIDs}

KeysOf(d) == {d[i].key : i \in 1..Len(d)}
Has(d, k) == \E i \in 1..Len(d) : d[i].key = k
Idx(d, k) == CHOOSE i \in 1..Len(d) : d[i].key = k
Get(d, k) == d[Idx(d, k)]
Put(d, k, r) == IF Has(d, k) THEN [d EXCEPT ![Idx(d, k)] = r] ELSE Append(d, r)
KeyList(d) == [i \in 1..Len(d) |-> d[i].key]

Inc(n) == IF n < MaxCount THEN n + 1 ELSE MaxCount

\* None where the empty string can stand as well (bsc_wallet)
None == "None"

-----------------------------------------------------------------------------
(* main.py: persistence *)

\* json.dumps writes every dict key as a string
JsonKey(k) == <<"str", k[2]>>

\* the "users" object of the JSON text: one member per dict entry, in order
JsonDumpUsers(d) == [i \in 1..Len(d) |-> [d[i] EXCEPT !.key = JsonKey(d[i].key)]]

\* json.loads: a repeated member keeps its first place and its last value
RECURSIVE JsonLoadUsers(_, _)
JsonLoadUsers(members, acc) ==
    IF members = <<>> THEN acc
    ELSE JsonLoadUsers(Tail(members), Put(acc, Head(members).key, Head(members)))

EmptyMap == [m \in {} |-> 0]

NoFile == [exists |-> FALSE, users |-> <<>>, token_state |-> EmptyMap, revenue |-> 0]

\* save_data: token_state[mint]["sent"] is made a list in the live dict
\* (data.copy() is shallow), then the whole of data is written
SentAsLists(ts) == [m \in DOMAIN ts |-> [ts[m] EXCEPT !.as_list = TRUE]]

main_save_data(us, ts, rev) ==
    [exists |-> TRUE, users |-> JsonDumpUsers(us), token_state |-> SentAsLists(ts),
     revenue |-> rev]

\* load_data: "sent" becomes a set again; a missing file gives the empty state
main_load_data(file) ==
    IF file.exists
    THEN [users |-> JsonLoadUsers(file.users, <<>>),
          token_state |-> [m \in DOMAIN file.token_state |->
                              [file.token_state[m] EXCEPT !.as_list = FALSE]],
          revenue |-> file.revenue]
    ELSE [users |-> <<>>, token_state |-> EmptyMap, revenue |-> 0]

-----------------------------------------------------------------------------
(* main.py: referral and payment *)

NoArg == <<"", "">>

main_new_user(k, chat_id, username) ==
    [key |-> k, free_alerts |-> 3, paid |-> FALSE, paid_until |-> 0,
     chat_id |-> chat_id, wallet |-> "", pending_buy |-> "", referrer |-> NoKey,
     referrals |-> <<>>, commissions_earned |-> 0, joins |-> 0, paid_subs |-> 0,
     username |-> username]

\* next((uid for uid, u in users.items() if u.get("username") == name), None)
FirstWithUsername(us, name) ==
    IF \E i \in 1..Len(us) : us[i].username = name
    THEN us[CHOOSE i \in 1..Len(us) :
                /\ us[i].username = name
                /\ \A j \in 1..(i - 1) : us[j].username # name].key
    ELSE NoKey

attribute_referral(us, new_k, code) ==
    IF code[1] # "ref_" THEN us
    ELSE LET referrer == FirstWithUsername(us, code[2]) IN
         IF referrer # NoKey /\ referrer # new_k
         THEN LET u1 == Put(us, new_k, [Get(us, new_k) EXCEPT !.referrer = referrer])
                  r  == Get(u1, referrer)
              IN  Put(u1, referrer, [r EXCEPT !.referrals = Append(@, new_k),
                                              !.joins = @ + 1])
         ELSE us

\* users[referrer] raises KeyError when the referrer's key is not in users
track_commission(us, rev, paid_k) ==
    LET referrer == Get(us, paid_k).referrer IN
    IF referrer = NoKey THEN [users |-> us, revenue |-> rev, raised |-> FALSE]
    ELSE IF ~Has(us, referrer) THEN [users |-> us, revenue |-> rev, raised |-> TRUE]
    ELSE [users |-> Put(us, referrer,
                        [Get(us, referrer) EXCEPT
                            !.commissions_earned =
                                @ + (PRICE_PREMIUM * REFERRAL_COMMISSION_PCT) \div 100,
                            !.paid_subs = @ + 1]),
          revenue |-> rev + PRICE_PREMIUM, raised |-> FALSE]

\* the USDT transfers BscScan reports for the payment wallet
Ledger == << [hash |-> "t1", tokenSymbol |-> "USDT", value |-> 29990],
             [hash |-> "t2", tokenSymbol |-> "USDT", value |-> 10000],
             [hash |-> "t3", tokenSymbol |-> "FAKE", value |-> 50000] >>
TxIds == {"t1", "T1", "t2", "t3", "t9"}
PayTxIds == {"t1", "t2"}
BscResponses == { [raised |-> TRUE,  status |-> "0", result |-> <<>>],
                  [raised |-> FALSE, status |-> "0", result |-> <<>>],
                  [raised |-> FALSE, status |-> "1", result |-> Ledger] }

\* str.lower() on the transaction ids and the addresses of the model
Lower(h) == IF h = "T1" THEN "t1" ELSE IF h = "0xA" THEN "0xa" ELSE h

PayAccepts_any(resp, txid) == TRUE

\* the for loop of pay: the first listed transfer with that hash that is USDT
\* and large enough
PayAccepts(resp, txid) ==
    /\ ~resp.raised
    /\ resp.status = "1"
    /\ \E i \in 1..Len(resp.result) :
          /\ Lower(resp.result[i].hash) = Lower(txid)
          /\ resp.result[i].tokenSymbol = "USDT"
          /\ resp.result[i].value >= PRICE_PREMIUM

main_start(uid, chat_id, username, arg) ==
    /\ prog = "main"
    /\ LET k  == IntKey(uid)
           u0 == IF Has(users, k) THEN users
                 ELSE Append(users, main_new_user(k, chat_id, username))
           u1 == Put(u0, k, [Get(u0, k) EXCEPT !.chat_id = chat_id,
                                               !.username = username])
       IN  users' = IF arg # NoArg THEN attribute_referral(u1, k, arg) ELSE u1
    /\ UNCHANGED <<botvars, tradevars, prog, webhook, clock, revenue, seen, token_state, volume_hist, scan,
                   bcasts, save_lock, disk, alerts, delivered, restarts_left>>

\* requests.get is a blocking call: the handler runs to its reply in one step.
\* users[uid] raises KeyError for an unknown uid; the except swallows it.
main_pay(uid, txid, resp) ==
    /\ prog = "main"
    /\ LET k == IntKey(uid) IN
       IF PayAccepts(resp, txid) /\ Has(users, k)
       THEN LET u   == Get(users, k)
                us1 == Put(users, k, [u EXCEPT !.paid = TRUE,
                                               !.paid_until = clock + PAID_DAYS_SECONDS,
                                               !.free_alerts = 0])
                tc  == IF ~u.paid THEN track_commission(us1, revenue, k)
                       ELSE [users |-> us1, revenue |-> revenue, raised |-> FALSE]
            IN  /\ users' = tc.users
                /\ revenue' = tc.revenue
       ELSE UNCHANGED <<users, revenue>>
    /\ UNCHANGED <<botvars, tradevars, prog, webhook, clock, seen, token_state, volume_hist, scan, bcasts,
                   save_lock, disk, alerts, delivered, restarts_left>>

-----------------------------------------------------------------------------
(* main.py: broadcast *)

Kinds == {"whale", "snipe", "confirm", "pump", "gold"}

MainEligible_all(paid, free_left) == TRUE

\* "if paid or free_left > 0" of broadcast
MainEligible(paid, free_left) == paid \/ free_left > 0

NoSend == [done |-> TRUE, cur |-> NoKey, rest |-> <<>>, paid |-> FALSE, free_left |-> 0]

\* the for loop of broadcast from one await to the next: users without a
\* chat_id or without paid / free alerts are passed over
RECURSIVE MainNextSend(_, _)
MainNextSend(us, rest) ==
    IF rest = <<>> THEN NoSend
    ELSE LET u == Get(us, Head(rest)) IN
         IF u.chat_id = 0 \/ ~MainEligible(u.paid, u.free_alerts)
         THEN MainNextSend(us, Tail(rest))
         ELSE [done |-> FALSE, cur |-> Head(rest), rest |-> Tail(rest),
               paid |-> u.paid, free_left |-> u.free_alerts]

MainBcast(mint, kind, nxt) ==
    [owner |-> "scanner", mint |-> mint, kind |-> kind, cur |-> nxt.cur,
     rest |-> nxt.rest, paid |-> nxt.paid, free_left |-> nxt.free_left]

\* after the await of safe_send: the counter is written from the values read
\* before the send, whether or not the message went out
MainAfterSend(us, b) ==
    IF ~b.paid
    THEN Put(us, b.cur, [Get(us, b.cur) EXCEPT !.free_alerts = b.free_left - 1])
    ELSE us

main_send_done(ok) ==
    /\ prog = "main"
    /\ \E b \in bcasts :
        LET us1 == MainAfterSend(users, b)
            nxt == MainNextSend(us1, b.rest)
        IN  /\ users' = us1
            /\ delivered' = IF ok THEN [delivered EXCEPT ![b.cur[2]] = Inc(@)]
                            ELSE delivered
            /\ IF nxt.done
               THEN /\ bcasts' = {}
                    /\ save_lock' = "free"
                    /\ scan' = [scan EXCEPT !.pc = IF scan.todo = 0 THEN "sleep"
                                                   ELSE "pairs"]
               ELSE /\ bcasts' = {MainBcast(b.mint, b.kind, nxt)}
                    /\ UNCHANGED <<save_lock, scan>>
    /\ UNCHANGED <<botvars, tradevars, prog, webhook, clock, revenue, seen, token_state, volume_hist, disk,
                   alerts, restarts_left>>

-----------------------------------------------------------------------------
(* main.py: premium_pump_scanner *)

PairShapes == { [fdv |-> 3000, h6 |-> 3600],
                [fdv |-> 9000, h6 |-> 21600],
                [fdv |-> 1000, h6 |-> 57600] }

\* pairAge "2 min" parses to 2, "0" (the default) to 0, "1m" does not parse
PairInputs ==
    { [mint |-> m, age_parses |-> TRUE, age_min |-> 2, fdv |-> s.fdv, h6 |-> s.h6,
       has_addr |-> TRUE] : m \in Mints, s \in PairShapes }
    \cup { [mint |-> "mA", age_parses |-> FALSE, age_min |-> 0, fdv |-> 3000,
            h6 |-> 3600, has_addr |-> TRUE],
           [mint |-> "mA", age_parses |-> TRUE, age_min |-> 0, fdv |-> 3000,
            h6 |-> 3600, has_addr |-> TRUE],
           [mint |-> "mB", age_parses |-> TRUE, age_min |-> 2, fdv |-> 3000,
            h6 |-> 3600, has_addr |-> FALSE] }

\* how many pairs a response lists; the pairs themselves are drawn one by one
\* as the for loop reaches them (nothing reads a pair before that)
PollSizes == 0..MaxPairs

WhaleBuys == {0, 1500}

\* deque(maxlen=4).append
DequeAppend(h, v) == IF Len(h) >= HIST_MAXLEN THEN Append(Tail(h), v) ELSE Append(h, v)

Level_fdv_only(fdv, vol_5m, hist) ==
    IF fdv >= MIN_FDVS_SNIPE THEN "snipe"
    ELSE IF fdv >= MIN_FDVS_CONFIRM THEN "confirm"
    ELSE "none"

Level(fdv, vol_5m, hist) ==
    IF fdv >= MIN_FDVS_SNIPE /\ vol_5m <= MAX_VOL_SNIPE THEN "snipe"
    ELSE IF fdv >= MIN_FDVS_CONFIRM /\ vol_5m >= MIN_VOL_CONFIRM THEN "confirm"
    ELSE IF /\ Len(hist) >= 2
            /\ vol_5m >= hist[Len(hist) - 1] * 3
            /\ vol_5m >= MIN_VOL_PUMP THEN "pump"
    ELSE "none"

HistOf(m) == IF m \in DOMAIN volume_hist THEN volume_hist[m] ELSE <<>>

\* seen without the entries older than one hour
EvictSeen(s, now) == [m \in {x \in DOMAIN s : ~(now - s[x] > SEEN_TTL)} |-> s[m]]

ScanInit == [pc |-> "sleep", now |-> 0, todo |-> 0]

\* the sleep at the top of the loop (or after an error) ends: time.time() is
\* read and the GET is sent
ExceptPc_stops == "stopped"

\* "except Exception: log.exception(...); await asyncio.sleep(20)" inside the
\* while True: the loop goes on after the sleep
ExceptPc == "sleep_crashed"

main_scan_wake ==
    /\ prog = "main"
    /\ scan.pc \in {"sleep", "sleep_http_error", "sleep_crashed", "sleep_no_pairs"}
    /\ scan' = [pc |-> "poll", now |-> clock, todo |-> 0]
    /\ UNCHANGED <<botvars, tradevars, prog, webhook, clock, users, revenue, seen, token_state, volume_hist,
                   bcasts, save_lock, disk, alerts, delivered, restarts_left>>

\* the response of the GET: an exception, a status other than 200, or a list
main_scan_response(raised, status, n_pairs) ==
    /\ prog = "main"
    /\ scan.pc = "poll"
    /\ IF raised THEN
            /\ scan' = [scan EXCEPT !.pc = ExceptPc]
            /\ UNCHANGED seen
       ELSE IF status # 200 THEN
            /\ scan' = [scan EXCEPT !.pc = "sleep_http_error"]
            /\ UNCHANGED seen
       ELSE IF n_pairs = 0 THEN
            /\ scan' = [scan EXCEPT !.pc = "sleep_no_pairs"]
            /\ UNCHANGED seen
       ELSE /\ scan' = [scan EXCEPT !.pc = "pairs", !.todo = n_pairs]
            /\ seen' = EvictSeen(seen, scan.now)
    /\ UNCHANGED <<botvars, tradevars, prog, webhook, clock, users, revenue, token_state, volume_hist, bcasts,
                   save_lock, disk, alerts, delivered, restarts_left>>

\* where the loop goes after the pair at the head of todo
AfterPair ==
    [scan EXCEPT !.todo = @ - 1,
                 !.pc = IF scan.todo = 1 THEN "sleep" ELSE "pairs"]

\* what the four RPC requests of is_rug_proof can answer: an exception (a
\* timeout, a body that is not the expected JSON), the first status that is
\* not 200, and the values read from the answers
RugAnswers ==
    LET safe == [raised |-> FALSE, status |-> 200, mint_authority |-> FALSE,
                 lp_burned |-> TRUE, total |-> 1000, held |-> 50]
    IN  { safe,
          [safe EXCEPT !.raised = TRUE],
          [safe EXCEPT !.status = 429],
          [safe EXCEPT !.mint_authority = TRUE],
          [safe EXCEPT !.lp_burned = FALSE],
          [safe EXCEPT !.total = 0],
          [safe EXCEPT !.held = 200] }

is_rug_proof_open(a) ==
    /\ ~a.mint_authority
    /\ a.lp_burned
    /\ a.total # 0
    /\ ~(a.held * 10 > a.total)

\* is_rug_proof: TRUE is the answer (True, "SAFE")
is_rug_proof(a) ==
    IF a.raised THEN FALSE
    ELSE IF a.status # 200 THEN FALSE
    ELSE IF a.mint_authority THEN FALSE
    ELSE IF ~a.lp_burned THEN FALSE
    ELSE IF a.total = 0 THEN FALSE
    ELSE IF a.total > 0 /\ a.held * 10 > a.total THEN FALSE
    ELSE TRUE

NewSent == [sent |-> {}, as_list |-> FALSE]

AlreadySent_never(state, level) == FALSE

\* "level not in state['sent']" guards the alert of that level
AlreadySent(state, level) == level \in state.sent

BroadcastLock_none == "free"

\* "async with save_lock" of broadcast: the lock is held over every send
BroadcastLock == "broadcast"

\* await broadcast(msg): save_lock is taken and the loop runs to its first send
MainStartBroadcast(base, mint, kind) ==
    LET nxt == MainNextSend(users, KeyList(users)) IN
    [base EXCEPT
        !.alerts = [alerts EXCEPT ![<<mint, kind>>] = Inc(@)],
        !.bcasts = IF nxt.done THEN {} ELSE {MainBcast(mint, kind, nxt)},
        !.save_lock = IF nxt.done THEN "free" ELSE BroadcastLock,
        !.scan = IF nxt.done THEN AfterPair
                 ELSE [scan EXCEPT !.todo = @ - 1, !.pc = "bcast"]]

\* one pass of "for pair in new_pairs", with the answers of the rug check and
\* of the whale detection; it ends at the next pair, inside a broadcast, or in
\* the except branch of the loop
MainPairResult(pair, safe, whale) ==
    LET mint   == pair.mint
        vol_5m == pair.h6 \div 72
        hist1  == DequeAppend(HistOf(mint), vol_5m)
        level  == Level(pair.fdv, vol_5m, hist1)
        state  == IF mint \in DOMAIN token_state THEN token_state[mint] ELSE NewSent
        skip   == [seen |-> seen, volume_hist |-> volume_hist,
                   token_state |-> token_state, scan |-> AfterPair,
                   bcasts |-> bcasts, save_lock |-> save_lock, alerts |-> alerts]
        marked == [skip EXCEPT !.seen = (mint :> scan.now) @@ seen]
        judged == [marked EXCEPT !.volume_hist = (mint :> hist1) @@ volume_hist]
        stated == [judged EXCEPT !.token_state = (mint :> state) @@ token_state]
    IN
    IF mint \in DOMAIN seen THEN skip
    ELSE IF ~pair.age_parses \/ pair.age_min < 1 THEN skip
    ELSE IF ~pair.has_addr THEN marked
    ELSE IF ~safe THEN marked
    ELSE IF whale >= MIN_WHALE_USD THEN MainStartBroadcast(marked, mint, "whale")
    ELSE IF level = "none" THEN judged
    ELSE IF AlreadySent(state, level) THEN stated
    ELSE IF state.as_list
         THEN \* list has no add: AttributeError, caught by the loop's except
              [stated EXCEPT !.scan = [scan EXCEPT !.pc = ExceptPc,
                                                   !.todo = 0]]
    ELSE MainStartBroadcast(
            [stated EXCEPT !.token_state =
                (mint :> [state EXCEPT !.sent = @ \cup {level}]) @@ token_state],
            mint, level)

main_scan_pair(pair, safe, whale) ==
    /\ prog = "main"
    /\ scan.pc = "pairs"
    /\ scan.todo > 0
    /\ LET r == MainPairResult(pair, safe, whale) IN
        /\ seen' = r.seen
        /\ volume_hist' = r.volume_hist
        /\ token_state' = r.token_state
        /\ scan' = r.scan
        /\ bcasts' = r.bcasts
        /\ save_lock' = r.save_lock
        /\ alerts' = r.alerts
    /\ UNCHANGED <<botvars, tradevars, prog, webhook, clock, users, revenue, disk, delivered, restarts_left>>

-----------------------------------------------------------------------------
(* main.py: auto_save, time, restart *)

\* auto_save waits for save_lock, then save_data runs without an await
main_auto_save ==
    /\ prog = "main"
    /\ save_lock = "free"
    /\ disk' = IF restarts_left > 0 THEN main_save_data(users, token_state, revenue)
               ELSE disk    \* a file that no later run reads is not kept
    /\ token_state' = SentAsLists(token_state)
    /\ UNCHANGED <<botvars, tradevars, prog, webhook, clock, users, revenue, seen, volume_hist, scan, bcasts,
                   save_lock, alerts, delivered, restarts_left>>

Tick ==
    /\ clock < (IF prog = "main" THEN MainMaxTicks * MainTick ELSE BotMaxTicks * BotTick)
    /\ clock' = clock + (IF prog = "main" THEN MainTick ELSE BotTick)
    /\ UNCHANGED <<botvars, tradevars, prog, webhook, users, revenue, seen, token_state, volume_hist, scan,
                   bcasts, save_lock, disk, alerts, delivered, restarts_left>>

NoAlerts == [x \in Mints \X Kinds |-> 0]
NoneDelivered == [u \in UIDs |-> 0]

\* the process is stopped and started again: everything in memory is lost and
\* load_data reads data.json
main_restart ==
    /\ prog = "main"
    /\ restarts_left > 0
    /\ restarts_left' = restarts_left - 1
    /\ LET raw == main_load_data(disk) IN
        /\ users' = raw.users
        /\ token_state' = raw.token_state
        /\ revenue' = raw.revenue
    /\ seen' = EmptyMap
    /\ volume_hist' = EmptyMap
    /\ scan' = ScanInit
    /\ bcasts' = {}
    /\ save_lock' = "free"
    /\ alerts' = NoAlerts
    /\ delivered' = NoneDelivered
    /\ UNCHANGED <<botvars, tradevars, prog, webhook, clock, disk>>

-----------------------------------------------------------------------------
(* bot.py: users and /start *)

bot_new_user(k, chat_id) ==
    [key |-> k, free_alerts |-> 3, paid |-> FALSE, chat_id |-> chat_id,
     wallet |-> "", bsc_wallet |-> None, default_tp |-> DEFAULT_TP,
     default_sl |-> DEFAULT_SL, trades |-> <<>>,
     connect_challenge |-> "", connect_expiry |-> 0]

bot_start_users_reset(us, uid, chat_id) ==
    Put(us, IntKey(uid), bot_new_user(IntKey(uid), chat_id))

\* /start: the record is created when the uid has none, chat_id is refreshed
bot_start_users(us, uid, chat_id) ==
    LET k   == IntKey(uid)
        us1 == IF Has(us, k) THEN us ELSE Put(us, k, bot_new_user(k, chat_id))
    IN  Put(us1, k, [Get(us1, k) EXCEPT !.chat_id = chat_id])

bot_start(uid, chat_id) ==
    /\ prog = "bot"
    /\ users' = bot_start_users(users, uid, chat_id)
    /\ UNCHANGED <<botvars, tradevars, prog, webhook, clock, revenue, seen, token_state, volume_hist,
                   scan, bcasts, save_lock, disk, alerts, delivered, restarts_left>>

\* /start connect_<uid>, the redirect link of build_connect_url: the record is
\* created or its chat_id refreshed, a text is sent, the handler returns
bot_start_connect(uid, chat_id) ==
    /\ prog = "bot"
    /\ users' = bot_start_users(users, uid, chat_id)
    /\ UNCHANGED <<botvars, tradevars, prog, webhook, clock, revenue, seen, token_state, volume_hist,
                   scan, bcasts, save_lock, disk, alerts, delivered, restarts_left>>

-----------------------------------------------------------------------------
(* bot.py: discovery, filters *)

\* what one poll can observe of a mint: its token info and how long ago the
\* launch transaction was
Observations ==
    { [symbol |-> "Wagmi", fdv |-> 100000, liquidity |-> 30000, holders |-> 10, block_age |-> 0],
      [symbol |-> "Wagmi", fdv |-> 100000, liquidity |-> 30000, holders |-> 10, block_age |-> 30],
      [symbol |-> "Pepe",  fdv |-> 20000,  liquidity |-> 5000,  holders |-> 5,  block_age |-> 30],
      [symbol |-> "MOON",  fdv |-> 100000, liquidity |-> 1000,  holders |-> 10, block_age |-> 0] }

NotObserved == [symbol |-> "", fdv |-> 0, liquidity |-> 0, holders |-> 0, block_age |-> 0]

IsNew_always(s, mint) == TRUE

\* "mint not in seen"
IsNew(s, mint) == mint \notin DOMAIN s

\* one signature of the poll: the mint is stored and queued when it is recent,
\* not seen before and its FDV is inside the storing range
Discover(st, mint, o, now) ==
    IF /\ o # NotObserved
       /\ ~(o.block_age > DISCOVER_MAX_AGE)
       /\ IsNew(st.seen, mint)
       /\ DISCOVER_MIN_FDV <= o.fdv /\ o.fdv <= DISCOVER_MAX_FDV
    THEN [seen        |-> (mint :> now) @@ st.seen,
          ready_queue |-> Append(st.ready_queue, mint),
          token_db    |-> (mint :> [symbol |-> o.symbol, fdv |-> o.fdv,
                                    launched |-> now - o.block_age,
                                    alerted |-> FALSE, liquidity |-> o.liquidity,
                                    vol_5m |-> 0, holders |-> o.holders])
                          @@ st.token_db]
    ELSE st

MintOrder == <<"mA", "mB">>

RECURSIVE DiscoverAll(_, _, _, _)
DiscoverAll(st, obs, i, now) ==
    IF i > Len(MintOrder) THEN st
    ELSE DiscoverAll(Discover(st, MintOrder[i], obs[MintOrder[i]], now), obs, i + 1, now)

\* the poll of one scanner cycle
get_new_pairs(st, obs, now) == DiscoverAll(st, obs, 1, now)

\* the anti-rug name filters, by their outcome on the symbols of the model
SymbolFiltered(symbol, fdv) == symbol \in {"MOON"}

AgeWindowOk_any(fdv, age) == TRUE

\* the age window of process_token, by the FDV of the record
AgeWindowOk(fdv, age) ==
    IF fdv < LOW_MC_FDV
    THEN LOW_MC_MIN_AGE <= age /\ age <= LOW_MC_MAX_AGE
    ELSE MID_MC_MIN_AGE <= age /\ age <= MID_MC_MAX_AGE

\* the filter chain of process_token
PassesFilters(info, age) ==
    /\ AgeWindowOk(info.fdv, age)
    /\ ALERT_MIN_FDV <= info.fdv /\ info.fdv <= ALERT_MAX_FDV
    /\ ~(info.vol_5m > ALERT_MAX_VOL)
    /\ ~(info.holders < ALERT_MIN_HOLDERS)
    /\ ~(info.liquidity * 100 < info.fdv * ALERT_LIQ_PCT)
    /\ ~SymbolFiltered(info.symbol, info.fdv)

\* how a call process_token(mint, now) ends
ProcessOutcome(tdb, mint, now) ==
    IF mint \notin DOMAIN tdb \/ tdb[mint].alerted THEN "return"
    ELSE IF PassesFilters(tdb[mint], now - tdb[mint].launched) THEN "alert"
    ELSE "watch"

WatchAdd(wl, tdb, mint, now) ==
    IF Has(wl, mint) THEN wl
    ELSE Append(wl, [key |-> mint, added_at |-> now, launched |-> tdb[mint].launched])

Pop(d, k) == SelectSeq(d, LAMBDA r : r.key # k)

DropKey(f, k) == [x \in DOMAIN f \ {k} |-> f[x]]


-----------------------------------------------------------------------------
(* bot.py: broadcast_alert *)

BotEligible(u) == u.paid \/ u.free_alerts > 0

\* the loop over list(users.items()) up to the next user that passes the test
RECURSIVE BotNextSend(_, _)
BotNextSend(us, rest) ==
    IF rest = <<>> THEN NoSend
    ELSE IF BotEligible(Get(us, Head(rest)))
         THEN [done |-> FALSE, cur |-> Head(rest), rest |-> Tail(rest),
               paid |-> FALSE, free_left |-> 0]
         ELSE BotNextSend(us, Tail(rest))

\* the broadcasts in flight after broadcast_alert(mint) has run to its first send
BotBroadcastStart(bs, us, owner, mint) ==
    LET nxt == BotNextSend(us, KeyList(us)) IN
    IF nxt.done THEN bs
    ELSE bs \cup {[owner |-> owner, mint |-> mint, kind |-> "gold",
                   cur |-> nxt.cur, rest |-> nxt.rest,
                   paid |-> FALSE, free_left |-> 0]}

BotAfterSend_pops(us, k, ok) == Pop(us, k)

BotAfterSend_always(us, k, ok) ==
    Put(us, k, [Get(us, k) EXCEPT !.free_alerts = @ - 1])

\* after the send: "if not u.get('paid'): u['free_alerts'] -= 1"; a failed
\* send is swallowed by the bare except
BotAfterSend(us, k, ok) ==
    IF ok /\ ~Get(us, k).paid
    THEN Put(us, k, [Get(us, k) EXCEPT !.free_alerts = @ - 1])
    ELSE us

-----------------------------------------------------------------------------
(* bot.py: process_token tasks, the scanner, the watchlist monitor *)

Bump(al, mint, kind) == [al EXCEPT ![<<mint, kind>>] = Inc(@)]

\* a process_token task created by the scanner runs, up to its first send
bot_process_token(t) ==
    /\ prog = "bot"
    /\ t \in tasks
    /\ tasks' = tasks \ {t}
    /\ LET out == ProcessOutcome(token_db, t.mint, t.now) IN
        IF out = "return" THEN
            UNCHANGED <<token_db, watchlist, bcasts, alerts>>
        ELSE IF out = "watch" THEN
            /\ watchlist' = WatchAdd(watchlist, token_db, t.mint, t.now)
            /\ UNCHANGED <<token_db, bcasts, alerts>>
        ELSE
            /\ token_db' = [token_db EXCEPT ![t.mint].alerted = TRUE]
            /\ watchlist' = Pop(watchlist, t.mint)
            /\ alerts' = Bump(alerts, t.mint, "gold")
            /\ bcasts' = BotBroadcastStart(bcasts, users, "task", t.mint)
    /\ UNCHANGED <<prog, webhook, clock, users, revenue, seen, token_state, volume_hist,
                   scan, save_lock, disk, delivered, restarts_left,
                   ready_queue, monitor, totals, tradevars>>

QUEUE_BATCH == 40

Take(q, n) == SubSeq(q, 1, IF Len(q) < n THEN Len(q) ELSE n)
Drop(q, n) == SubSeq(q, (IF Len(q) < n THEN Len(q) ELSE n) + 1, Len(q))

bot_scan_wake ==
    /\ prog = "bot"
    /\ scan.pc = "sleep"
    /\ scan' = [scan EXCEPT !.pc = "poll"]
    /\ UNCHANGED <<botvars, tradevars, prog, webhook, clock, users, revenue, seen, token_state,
                   volume_hist, bcasts, save_lock, disk, alerts, delivered,
                   restarts_left>>

\* one scanner cycle from the return of the poll to the sleep: an exception
\* of the poll is logged, the queued mints get their process_token tasks
bot_scan_cycle(raised, obs) ==
    /\ prog = "bot"
    /\ scan.pc = "poll"
    /\ LET st0 == [seen |-> seen, ready_queue |-> ready_queue, token_db |-> token_db]
           st  == IF raised THEN st0 ELSE get_new_pairs(st0, obs, clock)
           batch == Take(st.ready_queue, QUEUE_BATCH)
       IN
        /\ seen' = st.seen
        /\ token_db' = st.token_db
        /\ tasks' = tasks \cup {[mint |-> batch[i], now |-> clock] : i \in 1..Len(batch)}
        /\ ready_queue' = Drop(st.ready_queue, QUEUE_BATCH)
    /\ scan' = [scan EXCEPT !.pc = "sleep", !.now = clock]
    /\ UNCHANGED <<prog, webhook, clock, users, revenue, token_state, volume_hist, bcasts,
                   save_lock, disk, alerts, delivered, restarts_left,
                   watchlist, monitor, totals, tradevars>>

MonitorIdle == [pc |-> "sleep", now |-> 0, todo |-> <<>>, to_remove |-> <<>>]

PopAll_none(d, ks) == d

RECURSIVE PopAll(_, _)
PopAll(d, ks) == IF ks = <<>> THEN d ELSE PopAll(Pop(d, Head(ks)), Tail(ks))

RECURSIVE DropAll(_, _)
DropAll(f, ks) == IF ks = <<>> THEN f ELSE DropAll(DropKey(f, Head(ks)), Tail(ks))

\* the loop of watchlist_monitor over its snapshot, from entry "todo" on, up to
\* the first send of an alert or to the end of the pass
RECURSIVE MonitorRun(_, _)
MonitorRun(st, us) ==
    IF st.monitor.todo = <<>> THEN
        [st EXCEPT !.watchlist = PopAll(@, st.monitor.to_remove),
                   !.token_db = DropAll(@, st.monitor.to_remove),
                   !.monitor = MonitorIdle]
    ELSE
        LET e    == Head(st.monitor.todo)
            rest == Tail(st.monitor.todo)
            now  == st.monitor.now
        IN
        IF now - e.launched > WATCH_DURATION THEN
            MonitorRun([st EXCEPT !.monitor.todo = rest,
                                  !.monitor.to_remove = Append(@, e.key)], us)
        ELSE
            LET out == ProcessOutcome(st.token_db, e.key, now) IN
            IF out = "return" THEN
                MonitorRun([st EXCEPT !.monitor.todo = rest], us)
            ELSE IF out = "watch" THEN
                MonitorRun([st EXCEPT !.monitor.todo = rest,
                                      !.watchlist = WatchAdd(@, st.token_db, e.key, now)], us)
            ELSE
                LET st1 == [st EXCEPT !.monitor.todo = rest,
                                      !.token_db[e.key].alerted = TRUE,
                                      !.watchlist = Pop(@, e.key),
                                      !.alerts = Bump(@, e.key, "gold"),
                                      !.bcasts = BotBroadcastStart(@, us, "monitor", e.key)]
                IN  IF st1.bcasts # st.bcasts
                    THEN [st1 EXCEPT !.monitor.pc = "bcast"]
                    ELSE MonitorRun(st1, us)

MonitorState(m, bs) ==
    [monitor |-> m, watchlist |-> watchlist, token_db |-> token_db,
     alerts |-> alerts, bcasts |-> bs]

\* the monitor wakes up, takes its snapshot of the watchlist and runs
bot_monitor_wake ==
    /\ prog = "bot"
    /\ monitor.pc = "sleep"
    /\ LET m  == [pc |-> "run", now |-> clock, todo |-> watchlist, to_remove |-> <<>>]
           st == MonitorRun(MonitorState(m, bcasts), users)
       IN
        /\ monitor' = st.monitor
        /\ watchlist' = st.watchlist
        /\ token_db' = st.token_db
        /\ alerts' = st.alerts
        /\ bcasts' = st.bcasts
    /\ UNCHANGED <<prog, webhook, clock, users, revenue, seen, token_state, volume_hist,
                   scan, save_lock, disk, delivered, restarts_left,
                   ready_queue, tasks, totals, tradevars>>

\* a send of a broadcast returns: the counter is written, the loop goes on to
\* the next user that passes the test; when the broadcast was the monitor's,
\* the monitor goes on with its pass
bot_send_done(b, ok) ==
    /\ prog = "bot"
    /\ b \in bcasts
    /\ LET us1 == BotAfterSend(users, b.cur, ok)
           nxt == BotNextSend(us1, b.rest)
           bs1 == IF nxt.done THEN bcasts \ {b}
                  ELSE (bcasts \ {b}) \cup {[b EXCEPT !.cur = nxt.cur, !.rest = nxt.rest]}
       IN
        /\ users' = us1
        /\ delivered' = IF ok THEN [delivered EXCEPT ![b.cur[2]] = Inc(@)] ELSE delivered
        /\ IF nxt.done /\ b.owner = "monitor"
           THEN LET st == MonitorRun(MonitorState(monitor, bs1), us1) IN
                /\ monitor' = st.monitor
                /\ watchlist' = st.watchlist
                /\ token_db' = st.token_db
                /\ alerts' = st.alerts
                /\ bcasts' = st.bcasts
           ELSE /\ bcasts' = bs1
                /\ UNCHANGED <<monitor, watchlist, token_db, alerts>>
    /\ UNCHANGED <<prog, webhook, clock, revenue, seen, token_state, volume_hist, scan,
                   save_lock, disk, restarts_left, ready_queue, tasks, totals, tradevars>>

-----------------------------------------------------------------------------
(* bot.py: wallet, jupiter_buy, check_auto_sell *)

Wallets == {"W1"}

MaxSlots == MaxTrades + BUY_ATTEMPTS - 1

\* /connect of the specification: the user's wallet address is stored
connect(uid, addr) ==
    /\ prog = "bot"
    /\ Has(users, IntKey(uid))
    /\ users' = Put(users, IntKey(uid), [Get(users, IntKey(uid)) EXCEPT !.wallet = addr])
    /\ UNCHANGED <<botvars, tradevars, prog, webhook, clock, revenue, seen, token_state, volume_hist,
                   scan, bcasts, save_lock, disk, alerts, delivered, restarts_left>>

\* the button "disconnect_wallet"
bot_disconnect_wallet(uid) ==
    /\ prog = "bot"
    /\ Has(users, IntKey(uid))
    /\ users' = Put(users, IntKey(uid), [Get(users, IntKey(uid)) EXCEPT !.wallet = ""])
    /\ UNCHANGED <<botvars, tradevars, prog, webhook, clock, revenue, seen, token_state, volume_hist,
                   scan, bcasts, save_lock, disk, alerts, delivered, restarts_left>>

\* amounts in 1/10000 USD: cost_usd = sol_amount * 180, fee_usd = cost_usd * 0.01
CostUsd(sol_tenths) == sol_tenths * 180000
FeeUsd(cost) == cost \div 100

NewTrade(u, mint, sol_tenths, now) ==
    [mint |-> mint, cost_usd |-> CostUsd(sol_tenths) - FeeUsd(CostUsd(sol_tenths)),
     amount_sol |-> sol_tenths, status |-> "pending", tp |-> u.default_tp,
     sl |-> u.default_sl, buy_time |-> now, profit |-> 0]

\* one attempt of jupiter_buy, from the quote to the await of the final send:
\* the quote has no route, the quote or the swap raises, or the trade is booked
\* ("booked" counts the trades this call has appended)
BuyAttempt(st, b, quote) ==
    LET k == IntKey(b.uid)
        u == Get(st.users, k)
    IN
    IF quote = "no_route" THEN [st EXCEPT !.buying = @ \ {b}]
    ELSE IF quote = "raise" \/ u.wallet = "" THEN
        IF b.attempt = BUY_ATTEMPTS - 1
        THEN [st EXCEPT !.buying = @ \ {b}]
        ELSE [st EXCEPT !.buying = (@ \ {b}) \cup {[b EXCEPT !.attempt = @ + 1]}]
    ELSE [st EXCEPT
            !.revenue = @ + FeeUsd(CostUsd(b.sol)),
            !.totals.total_trades = @ + 1,
            !.users = Put(@, k, [u EXCEPT !.trades =
                                    Append(@, NewTrade(u, b.mint, b.sol, st.clock))]),
            !.buying = (@ \ {b}) \cup {[b EXCEPT !.pc = "send", !.booked = @ + 1]}]

\* the final send of an attempt returns: the buy is over, or the exception of
\* the send starts the next attempt
BuySent(st, b, ok) ==
    IF ok \/ b.attempt = BUY_ATTEMPTS - 1
    THEN [st EXCEPT !.buying = @ \ {b}]
    ELSE [st EXCEPT !.buying = (@ \ {b}) \cup {[b EXCEPT !.pc = "quote", !.attempt = @ + 1]}]

BuyState ==
    [users |-> users, revenue |-> revenue, totals |-> totals, buying |-> buying,
     clock |-> clock]

\* the button "buy_<mint>_<amount>": jupiter_buy starts
bot_buy(uid, mint, sol) ==
    /\ prog = "bot"
    /\ Has(users, IntKey(uid))
    /\ totals.total_trades < MaxTrades
    /\ ~(\E b \in buying : b.uid = uid)
    /\ buying' = IF Get(users, IntKey(uid)).wallet = "" THEN buying
                 ELSE buying \cup {[uid |-> uid, mint |-> mint, sol |-> sol,
                                    attempt |-> 0, pc |-> "quote", booked |-> 0]}
    /\ UNCHANGED <<botvars, prog, webhook, clock, users, revenue, seen, token_state,
                   volume_hist, scan, bcasts, save_lock, disk, alerts, delivered,
                   restarts_left, seller>>

\* a suspended jupiter_buy goes on
bot_buy_step(b, quote, ok) ==
    /\ prog = "bot"
    /\ b \in buying
    /\ LET st == IF b.pc = "quote" THEN BuyAttempt(BuyState, b, quote)
                 ELSE BuySent(BuyState, b, ok)
       IN
        /\ users' = st.users
        /\ revenue' = st.revenue
        /\ totals' = st.totals
        /\ buying' = st.buying
    /\ UNCHANGED <<prog, webhook, clock, seen, token_state, volume_hist, scan, bcasts,
                   save_lock, disk, alerts, delivered, restarts_left,
                   token_db, ready_queue, watchlist, tasks, monitor, seller>>

\* random.uniform(0.5, 4.0), in hundredths
Mults == {50, 120, 300}

Closes(trade, mult) == mult >= trade.tp \/ mult <= 100 - trade.sl

\* the trades the pass has still to look at: those after position <<ui, ti>>
Later(us, pos) ==
    { s \in (1..Len(us)) \X (1..MaxSlots) :
        /\ s[2] <= Len(us[s[1]].trades)
        /\ s[1] > pos[1] \/ (s[1] = pos[1] /\ s[2] > pos[2]) }

NoSlot == <<0, 0>>

\* "passes" tells the passes of the timer apart: it alternates with every pass
\* that has run to its end
SellerIdle == [pc |-> "sleep", pos |-> NoSlot, n |-> 0, passes |-> 0]

PassOver(sl) == [SellerIdle EXCEPT !.passes = 1 - sl.passes]

\* "trade.update(...)" of the sell branch with its bookkeeping
SellTrade(st, s, mult) ==
    LET trade  == st.users[s[1]].trades[s[2]]
        profit == (trade.cost_usd * (mult - 100)) \div 100
        fee    == profit \div 100
    IN  [st EXCEPT
            !.revenue = @ + fee,
            !.totals.wins = IF mult >= WIN_MULT THEN @ + 1 ELSE @,
            !.users[s[1]].trades[s[2]] =
                [trade EXCEPT !.status = "sold", !.profit = profit - fee]]

\* check_auto_sell from position pos on, up to its next await: every trade up to
\* "pick" drew a multiplier that kept it, "pick" is sold with "mult"; without a
\* pick the pass runs to its end. Moving to another user fails when the size
\* of users changed since the pass began.
SellRun(st, pos, n, pick, mult) ==
    LET open == { s \in Later(st.users, pos) : st.users[s[1]].trades[s[2]].status = "open" }
        moved == IF pick = NoSlot THEN pos # NoSlot ELSE pos # NoSlot /\ pick[1] # pos[1]
    IN
    IF moved /\ Len(st.users) # n THEN [st EXCEPT !.seller = [SellerIdle EXCEPT !.pc = "dead"]]
    ELSE IF pick \in open /\ Closes(st.users[pick[1]].trades[pick[2]], mult)
    THEN [SellTrade(st, pick, mult) EXCEPT
            !.seller = [pc |-> "send", pos |-> pick, n |-> n, passes |-> st.seller.passes]]
    ELSE [st EXCEPT !.seller = PassOver(st.seller)]

SellState ==
    [users |-> users, revenue |-> revenue, totals |-> totals, seller |-> seller]

\* the auto-sell timer fires, or its suspended pass goes on after a send
check_auto_sell(pick, mult, ok) ==
    /\ prog = "bot"
    /\ seller.pc # "dead"
    /\ LET st == IF seller.pc = "sleep"
                 THEN SellRun(SellState, NoSlot, Len(users), pick, mult)
                 ELSE IF ~ok THEN [SellState EXCEPT !.seller = [SellerIdle EXCEPT !.pc = "dead"]]
                 ELSE SellRun(SellState, seller.pos, seller.n, pick, mult)
       IN
        /\ users' = st.users
        /\ revenue' = st.revenue
        /\ totals' = st.totals
        /\ seller' = st.seller
    /\ UNCHANGED <<prog, webhook, clock, seen, token_state, volume_hist, scan, bcasts,
                   save_lock, disk, alerts, delivered, restarts_left,
                   token_db, ready_queue, watchlist, tasks, monitor, buying>>

BotIdle ==
    /\ token_db = EmptyMap
    /\ ready_queue = <<>>
    /\ watchlist = <<>>
    /\ tasks = {}
    /\ monitor = MonitorIdle
    /\ totals = [total_trades |-> 0, wins |-> 0]
    /\ buying = {}
    /\ seller = SellerIdle

-----------------------------------------------------------------------------
(* bot.py: /setbsc, the menu, persistence *)

BscAddrs == {"0xA", "0xb", "bad"}

\* Web3.is_address
IsAddress(addr) == addr # "bad"

\* /setbsc: the lower-cased address is stored; users[uid] raises KeyError for
\* a uid without a record
bot_setbsc(uid, addr) ==
    /\ prog = "bot"
    /\ users' = IF IsAddress(addr) /\ Has(users, IntKey(uid))
                THEN Put(users, IntKey(uid),
                         [Get(users, IntKey(uid)) EXCEPT !.bsc_wallet = Lower(addr)])
                ELSE users
    /\ UNCHANGED <<botvars, tradevars, prog, webhook, clock, revenue, seen, token_state,
                   volume_hist, scan, bcasts, save_lock, disk, alerts, delivered,
                   restarts_left>>

CONNECT_TTL == 300

\* f"connect_{uid}"
ConnectChallenge(uid) == IF uid = 1 THEN "connect_1" ELSE "connect_2"

build_connect_url(us, uid, now) ==
    Put(us, IntKey(uid), [Get(us, IntKey(uid)) EXCEPT
                              !.connect_challenge = ConnectChallenge(uid),
                              !.connect_expiry = now + CONNECT_TTL])

\* /menu and the button "menu": build_menu makes the connect link for a user
\* who has no wallet; users[uid] raises KeyError for a uid without a record
bot_menu(uid) ==
    /\ prog = "bot"
    /\ users' = IF Has(users, IntKey(uid)) /\ Get(users, IntKey(uid)).wallet = ""
                THEN build_connect_url(users, uid, clock)
                ELSE users
    /\ UNCHANGED <<botvars, tradevars, prog, webhook, clock, revenue, seen, token_state,
                   volume_hist, scan, bcasts, save_lock, disk, alerts, delivered,
                   restarts_left>>

\* auto_save: data.copy() is shallow, the two keys are popped from the live
\* user records
PopConnect(us) ==
    [i \in 1..Len(us) |-> [us[i] EXCEPT !.connect_challenge = "",
                                        !.connect_expiry = 0]]

bot_save_data(us, rev, tot) ==
    [exists |-> TRUE, users |-> JsonDumpUsers(PopConnect(us)), revenue |-> rev,
     totals |-> tot]

\* load_data of bot.py; a missing file leaves the initial data
bot_load_data(file) ==
    IF file.exists
    THEN [users |-> JsonLoadUsers(file.users, <<>>), revenue |-> file.revenue,
          totals |-> file.totals]
    ELSE [users |-> <<>>, revenue |-> 0, totals |-> [total_trades |-> 0, wins |-> 0]]

\* webhook.py is not deployed
NoWebhook == [status |-> "off"]

\* data.json is kept while a later run or the webhook can read it
FileIsRead == restarts_left > 0 \/ webhook # NoWebhook

\* auto_save after its sleep: save_lock is taken and released without an await
bot_auto_save ==
    /\ prog = "bot"
    /\ save_lock = "free"
    /\ users' = PopConnect(users)
    /\ disk' = IF FileIsRead THEN bot_save_data(users, revenue, totals) ELSE disk
    /\ UNCHANGED <<botvars, tradevars, prog, webhook, clock, revenue, seen, token_state,
                   volume_hist, scan, bcasts, save_lock, alerts, delivered,
                   restarts_left>>

\* the process is stopped and started again: load_data reads data.json
bot_restart ==
    /\ prog = "bot"
    /\ restarts_left > 0
    /\ restarts_left' = restarts_left - 1
    /\ LET raw == bot_load_data(disk) IN
        /\ users' = raw.users
        /\ revenue' = raw.revenue
        /\ totals' = raw.totals
    /\ seen' = EmptyMap
    /\ token_db' = EmptyMap
    /\ ready_queue' = <<>>
    /\ watchlist' = <<>>
    /\ tasks' = {}
    /\ monitor' = MonitorIdle
    /\ scan' = ScanInit
    /\ bcasts' = {}
    /\ save_lock' = "free"
    /\ buying' = {}
    /\ seller' = SellerIdle
    /\ alerts' = NoAlerts
    /\ delivered' = NoneDelivered
    /\ UNCHANGED <<prog, webhook, clock, disk, token_state, volume_hist>>

-----------------------------------------------------------------------------
(* webhook.py *)

REQUIRED_USDT == 29990000

HOOK_FREE_ALERTS == 999

\* the Transfer events of a receipt: "to" is WALLET or another address
Logs == { [to |-> "WALLET", value |-> 29990000, from |-> "0xA"],
          [to |-> "WALLET", value |-> 29990000, from |-> "0xb"],
          [to |-> "WALLET", value |-> 10000000, from |-> "0xA"],
          [to |-> "other",  value |-> 29990000, from |-> "0xA"] }

Receipts == {<<>>} \cup {<<l>> : l \in Logs}
            \cup {<<l1, l2>> : l1 \in Logs, l2 \in Logs}

\* a request: its X-Secret header, whether reading the receipt raises, the
\* events of the receipt, whether the Telegram send succeeds
Requests == [secret_ok : BOOLEAN, raised : BOOLEAN, logs : Receipts, send_ok : BOOLEAN]

\* load_data of webhook.py
webhook_load_data(file) ==
    IF file.exists THEN JsonLoadUsers(file.users, <<>>) ELSE <<>>

\* u.get("bsc_wallet", "").lower(): the default is used for a missing key
\* only, a stored None has no lower()
NoneLowerRaises(w) == w = None

\* the loop over data["users"].items(): the place of the first record whose
\* bsc_wallet is the sender, 0 when there is none, -1 when the comparison raises
RECURSIVE HookMatch(_, _, _)
HookMatch(us, i, from) ==
    IF i > Len(us) THEN 0
    ELSE IF NoneLowerRaises(us[i].bsc_wallet) THEN -1
    ELSE IF Lower(us[i].bsc_wallet) = Lower(from) THEN i
    ELSE HookMatch(us, i + 1, from)

\* the loop over the logs inside the try: the file after the request and the
\* status of the response
RECURSIVE HookRun(_, _, _)
HookRun(file, logs, send_ok) ==
    IF logs = <<>> THEN [file |-> file, status |-> "ignored"]
    ELSE LET log == Head(logs) IN
         IF log.to = "WALLET" /\ log.value >= REQUIRED_USDT
         THEN LET us == webhook_load_data(file)
                  i  == HookMatch(us, 1, log.from)
              IN  IF i = -1 THEN [file |-> file, status |-> "error"]
                  ELSE IF i = 0 THEN HookRun(file, Tail(logs), send_ok)
                  ELSE [file   |-> [file EXCEPT !.users =
                                       [us EXCEPT ![i].paid = TRUE,
                                                  ![i].free_alerts = HOOK_FREE_ALERTS]],
                        status |-> IF send_ok THEN "activated" ELSE "error"]
         ELSE HookRun(file, Tail(logs), send_ok)

usdt_webhook(req) ==
    /\ webhook # NoWebhook
    /\ LET r == IF ~req.secret_ok THEN [file |-> disk, status |-> "forbidden"]
                ELSE IF req.raised THEN [file |-> disk, status |-> "error"]
                ELSE HookRun(disk, req.logs, req.send_ok)
       IN  /\ disk' = r.file
           /\ webhook' = [status |-> r.status]
    /\ UNCHANGED <<botvars, tradevars, prog, clock, users, revenue, seen, token_state,
                   volume_hist, scan, bcasts, save_lock, alerts, delivered,
                   restarts_left>>

-----------------------------------------------------------------------------
(* Specifications *)

InitMain ==
    /\ prog = "main"
    /\ clock = 0
    /\ users = <<>>
    /\ revenue = 0
    /\ seen = EmptyMap
    /\ token_state = EmptyMap
    /\ volume_hist = EmptyMap
    /\ scan = ScanInit
    /\ bcasts = {}
    /\ save_lock = "free"
    /\ disk = NoFile
    /\ alerts = NoAlerts
    /\ delivered = NoneDelivered
    /\ restarts_left = 0
    /\ BotIdle
    /\ webhook = NoWebhook

\* the scanner with every kind of pair, one subscriber
NextMainScan ==
    \/ main_start(1, 1, "user1", NoArg)
    \/ main_scan_wake
    \/ \E raised \in BOOLEAN : \E status \in {200, 429} : \E n \in PollSizes :
          main_scan_response(raised, status, n)
    \/ \E pair \in PairInputs : \E safe \in BOOLEAN : \E whale \in WhaleBuys :
          main_scan_pair(pair, safe, whale)
    \/ \E ok \in BOOLEAN : main_send_done(ok)
    \/ main_auto_save
    \/ Tick

SpecMainScan == InitMain /\ [][NextMainScan]_vars

\* every command of every user, a scanner that finds whale buys
WhalePairs == { [mint |-> m, age_parses |-> TRUE, age_min |-> 2, fdv |-> 3000,
                 h6 |-> 3600, has_addr |-> TRUE] : m \in Mints }

NextMainUsers ==
    \/ \E s \in Senders : main_start(s[1], s[2], s[3], NoArg)
    \/ \E t \in PayTxIds : \E r \in BscResponses : main_pay(1, t, r)
    \/ main_scan_wake
    \/ \E raised \in BOOLEAN : \E status \in {200, 429} : \E n \in PollSizes :
          main_scan_response(raised, status, n)
    \/ \E pair \in WhalePairs : main_scan_pair(pair, TRUE, 1500)
    \/ \E ok \in BOOLEAN : main_send_done(ok)
    \/ main_auto_save
    \/ Tick

SpecMainUsers == InitMain /\ [][NextMainUsers]_vars

\* a /start that carries the referral code of alice
ReferredStart ==
    /\ prog = "main"
    /\ \A i \in 1..Len(users) : users[i].joins < MaxJoins
    /\ main_start(2, 2, "bob", <<"ref_", "alice">>)

\* /pay of every user with every transaction id and every answer of BscScan
NextMainPay ==
    \/ \E s \in Senders : main_start(s[1], s[2], s[3], NoArg)
    \/ ReferredStart
    \/ \E uid \in UIDs : \E t \in TxIds : \E r \in BscResponses : main_pay(uid, t, r)
    \/ Tick

SpecMainPay == InitMain /\ [][NextMainPay]_vars

\* one user, over a restart of the process that reads data.json back
InitMainRestart ==
    /\ prog = "main"
    /\ clock = 0
    /\ users = <<>>
    /\ revenue = 0
    /\ seen = EmptyMap
    /\ token_state = EmptyMap
    /\ volume_hist = EmptyMap
    /\ scan = ScanInit
    /\ bcasts = {}
    /\ save_lock = "free"
    /\ disk = NoFile
    /\ alerts = NoAlerts
    /\ delivered = NoneDelivered
    /\ restarts_left = MaxRestarts
    /\ BotIdle
    /\ webhook = NoWebhook

NextMainRestart ==
    \/ main_start(1, 1, "alice", NoArg)
    \/ \E t \in PayTxIds : \E r \in BscResponses : main_pay(1, t, r)
    \/ main_scan_wake
    \/ \E raised \in BOOLEAN : \E status \in {200, 429} : \E n \in PollSizes :
          main_scan_response(raised, status, n)
    \/ \E pair \in WhalePairs : main_scan_pair(pair, TRUE, 1500)
    \/ \E ok \in BOOLEAN : main_send_done(ok)
    \/ main_auto_save
    \/ main_restart
    \/ Tick

SpecMainRestart == InitMainRestart /\ [][NextMainRestart]_vars


InitBot ==
    /\ prog = "bot"
    /\ clock = 0
    /\ users = <<>>
    /\ revenue = 0
    /\ seen = EmptyMap
    /\ token_state = EmptyMap
    /\ volume_hist = EmptyMap
    /\ scan = ScanInit
    /\ bcasts = {}
    /\ save_lock = "free"
    /\ disk = NoFile
    /\ alerts = NoAlerts
    /\ delivered = NoneDelivered
    /\ restarts_left = 0
    /\ BotIdle
    /\ webhook = NoWebhook

PollObservations == [Mints -> Observations \cup {NotObserved}]

\* bot.py: the scanner, its tasks and the watchlist monitor, one subscriber
NextBotScan ==
    \/ bot_start(1, 1)
    \/ bot_scan_wake
    \/ \E raised \in BOOLEAN : \E obs \in PollObservations : bot_scan_cycle(raised, obs)
    \/ \E t \in tasks : bot_process_token(t)
    \/ bot_monitor_wake
    \/ \E b \in bcasts : \E ok \in BOOLEAN : bot_send_done(b, ok)
    \/ Tick

SpecBotScan == InitBot /\ [][NextBotScan]_vars


\* bot.py: a user who connects a wallet and buys, and the auto-sell timer.
\* The event loop runs every task that is ready: a suspended jupiter_buy goes
\* on and the timer of check_auto_sell keeps firing.
NextTrades ==
    \/ bot_start(1, 1)
    \/ \E w \in Wallets : connect(1, w)
    \/ bot_disconnect_wallet(1)
    \/ \E m \in Mints : bot_buy(1, m, 1)
    \/ \E b \in buying : \E quote \in {"ok", "no_route", "raise"} : \E ok \in BOOLEAN :
          bot_buy_step(b, quote, ok)
    \/ \E pick \in ((1..2) \X (1..MaxSlots)) \cup {NoSlot} : \E mult \in Mults :
       \E ok \in BOOLEAN : check_auto_sell(pick, mult, ok)
    \/ Tick

AutoSellFires ==
    \E pick \in ((1..2) \X (1..MaxSlots)) \cup {NoSlot} : \E mult \in Mults :
        check_auto_sell(pick, mult, TRUE)

BuyGoesOn ==
    \E b \in buying : \E quote \in {"ok", "no_route", "raise"} : \E ok \in BOOLEAN :
        bot_buy_step(b, quote, ok)

SpecTrades ==
    InitBot /\ [][NextTrades]_vars /\ WF_vars(AutoSellFires) /\ WF_vars(BuyGoesOn)

\* bot.py: a scanner that finds tokens on both sides of every filter of
\* process_token that a stored record can fail (vol_5m is stored as 0)
FilterShapes ==
    { [symbol |-> "Wagmi", fdv |-> 100000,  liquidity |-> 30000,  holders |-> 10, block_age |-> 30],
      [symbol |-> "Wagmi", fdv |-> 100000,  liquidity |-> 30000,  holders |-> 10, block_age |-> 0],
      [symbol |-> "Pepe",  fdv |-> 20000,   liquidity |-> 5000,   holders |-> 5,  block_age |-> 100],
      [symbol |-> "Pepe",  fdv |-> 3000,    liquidity |-> 1000,   holders |-> 10, block_age |-> 30],
      [symbol |-> "Wagmi", fdv |-> 2500000, liquidity |-> 600000, holders |-> 10, block_age |-> 30],
      [symbol |-> "Wagmi", fdv |-> 100000,  liquidity |-> 30000,  holders |-> 4,  block_age |-> 30],
      [symbol |-> "Wagmi", fdv |-> 100000,  liquidity |-> 19999,  holders |-> 10, block_age |-> 30] }

FilterObservations == [Mints -> FilterShapes \cup {NotObserved}]

NextBotFilters ==
    \/ bot_start(1, 1)
    \/ bot_scan_wake
    \/ \E raised \in BOOLEAN : \E obs \in FilterObservations : bot_scan_cycle(raised, obs)
    \/ \E t \in tasks : bot_process_token(t)
    \/ bot_monitor_wake
    \/ \E b \in bcasts : \E ok \in BOOLEAN : bot_send_done(b, ok)
    \/ Tick

SpecBotFilters == InitBot /\ [][NextBotFilters]_vars

\* bot.py and webhook.py on one data.json: users who set their BSC address
\* and open the menu, the save timer, payments reported to the webhook, a
\* restart of the bot
InitHook ==
    /\ prog = "bot"
    /\ clock = 0
    /\ users = <<>>
    /\ revenue = 0
    /\ seen = EmptyMap
    /\ token_state = EmptyMap
    /\ volume_hist = EmptyMap
    /\ scan = ScanInit
    /\ bcasts = {}
    /\ save_lock = "free"
    /\ disk = NoFile
    /\ alerts = NoAlerts
    /\ delivered = NoneDelivered
    /\ restarts_left = MaxRestarts
    /\ BotIdle
    /\ webhook = [status |-> "none"]

NextHook ==
    \/ \E uid \in UIDs : bot_start(uid, uid)
    \/ \E uid \in UIDs : \E addr \in {"0xA", "bad"} : bot_setbsc(uid, addr)
    \/ bot_menu(1)
    \/ bot_auto_save
    \/ \E req \in Requests : usdt_webhook(req)
    \/ bot_restart

SpecHook == InitHook /\ [][NextHook]_vars

\* bot.py with two subscribers and a scanner that finds tokens passing the filters
AlertObservations ==
    [Mints -> {[symbol |-> "Wagmi", fdv |-> 100000, liquidity |-> 30000,
                holders |-> 10, block_age |-> 30], NotObserved}]

NextBotUsers ==
    \/ \E s \in Senders : bot_start(s[1], s[2])
    \/ bot_menu(1)
    \/ bot_auto_save
    \/ bot_scan_wake
    \/ \E raised \in BOOLEAN : \E obs \in AlertObservations : bot_scan_cycle(raised, obs)
    \/ \E t \in tasks : bot_process_token(t)
    \/ bot_monitor_wake
    \/ \E b \in bcasts : \E ok \in BOOLEAN : bot_send_done(b, ok)
    \/ Tick

\* bot.py over a restart, one subscriber: alerts before and after the restart
InitBotRestart ==
    /\ prog = "bot"
    /\ clock = 0
    /\ users = <<>>
    /\ revenue = 0
    /\ seen = EmptyMap
    /\ token_state = EmptyMap
    /\ volume_hist = EmptyMap
    /\ scan = ScanInit
    /\ bcasts = {}
    /\ save_lock = "free"
    /\ disk = NoFile
    /\ alerts = NoAlerts
    /\ delivered = NoneDelivered
    /\ restarts_left = MaxRestarts
    /\ BotIdle
    /\ webhook = NoWebhook

NextBotRestart ==
    \/ bot_start(1, 1)
    \/ bot_auto_save
    \/ bot_restart
    \/ bot_scan_wake
    \/ \E raised \in BOOLEAN : \E obs \in AlertObservations : bot_scan_cycle(raised, obs)
    \/ \E t \in tasks : bot_process_token(t)
    \/ \E b \in bcasts : \E ok \in BOOLEAN : bot_send_done(b, ok)

SpecBotRestart == InitBotRestart /\ [][NextBotRestart]_vars

\* a payment from the address of user 1, reported with the right secret
PaidRequest ==
    [secret_ok |-> TRUE, raised |-> FALSE, send_ok |-> TRUE,
     logs |-> <<[to |-> "WALLET", value |-> 29990000, from |-> "0xA"]>>]

\* a poll that finds the mint mA, which passes the filters
OneAlertObservation ==
    [m \in Mints |-> IF m = "mA"
                     THEN [symbol |-> "Wagmi", fdv |-> 100000, liquidity |-> 30000,
                           holders |-> 10, block_age |-> 30]
                     ELSE NotObserved]

\* bot.py and webhook.py over a restart of the bot: two subscribers, a payment
\* of user 1 that the webhook activates, an alert
NextBotPaid ==
    \/ \E uid \in UIDs : bot_start(uid, uid)
    \/ bot_setbsc(1, "0xA")
    \/ bot_auto_save
    \/ usdt_webhook(PaidRequest)
    \/ bot_restart
    \/ bot_scan_wake
    \/ bot_scan_cycle(FALSE, OneAlertObservation)
    \/ \E t \in tasks : bot_process_token(t)
    \/ \E b \in bcasts : \E ok \in BOOLEAN : bot_send_done(b, ok)

SpecBotPaid == InitHook /\ [][NextBotPaid]_vars

\* main.py over a restart: alice, and bob who comes through alice's link and
\* pays, in the first run and again after the restart
PaidResponse == [raised |-> FALSE, status |-> "1", result |-> Ledger]

NextMainReferral ==
    \/ main_start(1, 1, "alice", NoArg)
    \/ /\ \A i \in 1..Len(users) : users[i].joins <= MaxJoins
       /\ main_start(2, 2, "bob", <<"ref_", "alice">>)
    \/ \E t \in PayTxIds : main_pay(2, t, PaidResponse)
    \/ main_auto_save
    \/ main_restart

SpecMainReferral == InitMainRestart /\ [][NextMainReferral]_vars

\* bot.py: tokens that fail the age window when they are found: too young
\* (passes at a recheck), found late, and a low cap that is too old
WatchShapes ==
    { [symbol |-> "Wagmi", fdv |-> 100000, liquidity |-> 30000, holders |-> 10, block_age |-> 5],
      [symbol |-> "Wagmi", fdv |-> 100000, liquidity |-> 30000, holders |-> 10, block_age |-> 400],
      [symbol |-> "Pepe",  fdv |-> 20000,  liquidity |-> 5000,  holders |-> 5,  block_age |-> 100] }

NothingObserved == [m \in Mints |-> NotObserved]

\* the tokens are launched around the start of the run; later polls find nothing new
WatchObservations ==
    IF clock = 0 THEN [Mints -> WatchShapes \cup {NotObserved}] ELSE {NothingObserved}

NextBotWatch ==
    \/ bot_start(1, 1)
    \/ bot_scan_wake
    \/ \E obs \in WatchObservations : bot_scan_cycle(FALSE, obs)
    \/ \E t \in tasks : bot_process_token(t)
    \/ bot_monitor_wake
    \/ \E b \in bcasts : \E ok \in BOOLEAN : bot_send_done(b, ok)
    \/ Tick

TaskRuns == \E t \in tasks : bot_process_token(t)

BotSendReturns == \E b \in bcasts : \E ok \in BOOLEAN : bot_send_done(b, ok)

\* the event loop runs every ready task, the sleep of the monitor ends, a send
\* returns or raises, and time passes
FairSpecWatch ==
    /\ InitBot
    /\ [][NextBotWatch]_vars
    /\ WF_vars(TaskRuns) /\ WF_vars(bot_monitor_wake) /\ WF_vars(BotSendReturns)
    /\ WF_vars(Tick)

\* main.py: the scanner with the answers of the rug check, one subscriber
NextMainRug ==
    \/ main_start(1, 1, "user1", NoArg)
    \/ main_scan_wake
    \/ \E n \in PollSizes : main_scan_response(FALSE, 200, n)
    \/ \E pair \in WhalePairs : \E a \in RugAnswers : \E whale \in WhaleBuys :
          main_scan_pair(pair, is_rug_proof(a), whale)
    \/ \E ok \in BOOLEAN : main_send_done(ok)
    \/ Tick

SpecMainRug == InitMain /\ [][NextMainRug]_vars

\* bot.py: users who start the bot, in a group chat too, open the menu, follow
\* the connect link, come back to the private chat through the redirect link
\* and buy
NextBotConnect ==
    \/ \E s \in Senders : bot_start(s[1], s[2])
    \/ \E uid \in UIDs : bot_menu(uid)
    \/ \E uid \in UIDs : bot_start_connect(uid, uid)
    \/ \E uid \in UIDs : \E m \in Mints : bot_buy(uid, m, 1)
    \/ bot_auto_save
    \/ Tick

SpecBotConnect == InitBot /\ [][NextBotConnect]_vars

\* either revision, with its users and its scanner
Init == InitMain \/ InitBot

Next ==
    \/ NextMainUsers
    \/ ReferredStart
    \/ NextBotUsers

Spec == Init /\ [][Next]_vars

\* the scanner loops of both revisions under the scheduling of the event loop:
\* a sleep ends, a request returns or times out, a send returns or raises
ScanWakes == main_scan_wake \/ bot_scan_wake

ScanPolls ==
    \/ \E raised \in BOOLEAN : \E status \in {200, 429} : \E n \in PollSizes :
          main_scan_response(raised, status, n)
    \/ \E raised \in BOOLEAN : \E obs \in PollObservations : bot_scan_cycle(raised, obs)

ScanPairs == \E pair \in PairInputs : \E safe \in BOOLEAN : \E whale \in WhaleBuys :
                main_scan_pair(pair, safe, whale)

SendReturns == \E ok \in BOOLEAN : main_send_done(ok)

NextScanLoop ==
    \/ main_start(1, 1, "user1", NoArg)
    \/ bot_start(1, 1)
    \/ ScanWakes
    \/ ScanPolls
    \/ ScanPairs
    \/ SendReturns
    \/ \E t \in tasks : bot_process_token(t)
    \/ \E b \in bcasts : \E ok \in BOOLEAN : bot_send_done(b, ok)

FairSpecScan ==
    /\ Init
    /\ [][NextScanLoop]_vars
    /\ WF_vars(ScanWakes) /\ WF_vars(ScanPolls) /\ WF_vars(ScanPairs)
    /\ WF_vars(SendReturns)

-----------------------------------------------------------------------------
(* Claims *)

Levels == {"snipe", "confirm", "pump"}

AlertsOf(m) == alerts[<<m, "whale">>] + alerts[<<m, "snipe">>]
               + alerts[<<m, "confirm">>] + alerts[<<m, "pump">>]
               + alerts[<<m, "gold">>]

\* C1: in bot.py the same mint is never alerted twice: over any interleaving
\* of the process_token tasks and the rechecks of watchlist_monitor,
\* broadcast_alert is called at most once per mint.
C1_AlertedOncePerMint == \A m \in Mints : alerts[<<m, "gold">>] <= 1

\* a mint that failed its first check at age 0, was put on the watchlist and
\* was alerted by a later recheck of the monitor, while the scanner is polling
\* again
C1_Witness ==
    \E m \in Mints :
        /\ alerts[<<m, "gold">>] = 1
        /\ m \in DOMAIN token_db /\ token_db[m].alerted
        /\ token_db[m].launched = 0
        /\ clock > 0
        /\ scan.pc = "poll"

\* C2 as stated: in main.py the scanner never broadcasts an alert for the same
\* mint twice, whale alerts, different levels and re-observation after the
\* eviction from seen included.
C2_NoMintAlertedTwice == \A m \in Mints : AlertsOf(m) <= 1

\* C2 as amended: the scanner never broadcasts the same level alert (snipe,
\* confirm, pump) twice for one mint in one run.
C2_NoLevelAlertedTwice == \A m \in Mints : \A l \in Levels : alerts[<<m, l>>] <= 1

\* a mint that was alerted at snipe level, evicted from seen, and judged snipe
\* again on its second evaluation
C2_Witness ==
    \E m \in Mints :
        /\ alerts[<<m, "snipe">>] = 1
        /\ HistOf(m) = <<50, 50>>

Entitled(us, k) == Has(us, k) /\ (Get(us, k).paid \/ Get(us, k).free_alerts > 0)

\* C3: payment gating: a broadcast starts a send to a user only if, when it
\* examines that user, the user is paid or has free_alerts > 0 (broadcast_alert
\* in bot.py, broadcast in main.py).
C3_PaymentGating == [][\A b \in bcasts' : b \notin bcasts => Entitled(users', b.cur)]_vars

\* a broadcast of main.py is sending to a later user after it has passed a user
\* who is unpaid and has used up the three free alerts
C3_Witness ==
    \E b \in bcasts : \E i \in 1..Len(users) :
        /\ ~users[i].paid /\ users[i].free_alerts = 0
        /\ delivered[users[i].key[2]] = 3
        /\ Has(users, b.cur) /\ i < Idx(users, b.cur)

PersonPaid(uid) == \E i \in 1..Len(users) : users[i].key[2] = uid /\ users[i].paid

\* C4: in main.py a user who registers with /start and never has a payment
\* accepted is sent at most 3 alerts during one run of the process.
C4_AtMostThreeAlerts ==
    \A uid \in UIDs :
        (Has(users, IntKey(uid)) /\ ~PersonPaid(uid)) => delivered[uid] <= 3

Activated(us, k) == Has(us, k) /\ Get(us, k).paid /\ Get(us, k).free_alerts = 0

\* C5: in main.py, once /pay has activated premium for a user (paid = true,
\* free_alerts = 0), that user has paid = true and free_alerts = 0 in every
\* later state.
C5_PremiumStays == [][\A k \in AllKeys : Activated(users, k) => Activated(users', k)]_vars

\* C6: after a restart the handlers find a loaded user record under the same
\* uid: /start from a user who existed before the restart does not create a
\* second record for that user.
C6_OneRecordPerUser ==
    \A uid \in UIDs : ~(Has(users, IntKey(uid)) /\ Has(users, StrKey(uid)))

TradesOf(u) == IF prog = "bot" THEN u.trades ELSE <<>>

\* C7: every trade record in any user's trades list has status open or sold in
\* every reachable state of bot.py.
C7_StatusOpenOrSold ==
    \A i \in 1..Len(users) : \A j \in 1..Len(TradesOf(users[i])) :
        users[i].trades[j].status \in {"open", "sold"}

HasTrade(uid, j) ==
    /\ Has(users, IntKey(uid))
    /\ j <= Len(TradesOf(Get(users, IntKey(uid))))

\* C8: every trade created by a purchase is eventually closed (status sold) by
\* the auto-sell timer, the timer firing again and again.
C8_EveryTradeClosed ==
    \A uid \in UIDs : \A j \in 1..MaxSlots :
        HasTrade(uid, j) ~> (HasTrade(uid, j) /\ Get(users, IntKey(uid)).trades[j].status = "sold")

RefAlice == <<"ref_", "alice">>

WithoutContact(u) ==
    IF prog = "main" THEN [u EXCEPT !.chat_id = 0, !.username = ""]
    ELSE [u EXCEPT !.chat_id = 0]

\* what a /start of the user with key k must have done
StartEffect(k, chat_id, username, arg) ==
    IF Has(users, k) THEN
        /\ Len(users') = Len(users)
        /\ Has(users', k)
        /\ Get(users', k).free_alerts = Get(users, k).free_alerts
        /\ Get(users', k).paid = Get(users, k).paid
        /\ Get(users', k).wallet = Get(users, k).wallet
        /\ TradesOf(Get(users', k)) = TradesOf(Get(users, k))
        /\ Get(users', k).chat_id = chat_id
        /\ prog = "main" => Get(users', k).username = username
        /\ arg = NoArg =>
              /\ WithoutContact(Get(users', k)) = WithoutContact(Get(users, k))
              /\ \A i \in 1..Len(users) : users[i].key # k => users'[i] = users[i]
    ELSE
        /\ Len(users') = Len(users) + 1
        /\ Has(users', k)
        /\ Get(users', k).free_alerts = 3
        /\ ~Get(users', k).paid
        /\ Get(users', k).wallet = ""
        /\ TradesOf(Get(users', k)) = <<>>
        /\ Get(users', k).chat_id = chat_id

C10_PollAgain == []<>(scan.pc = "poll")

\* the scanner of main.py sleeps after an exception raised in its cycle
C10_Witness == prog = "main" /\ scan.pc = ExceptPc

\* C11: save_lock is held only by auto_save while data.json is written: no
\* task that mutates users (the alert broadcast, the command handlers) holds
\* it at any await, so a save can take place between any two mutations.
C11_LockOnlyForSave == save_lock = "free"

\* C11, as the code has it: save_lock is held exactly while a broadcast of
\* main.py is in progress (over each of its sends); the command handlers and
\* every task of bot.py mutate users without it. A save waits for the end of
\* a broadcast of main.py and for nothing else.
C11_LockHeldByMainBroadcast ==
    (save_lock # "free") <=> (prog = "main" /\ bcasts # {})

\* a broadcast of main.py waits for a send, holding the lock, after it has
\* written the counter of the first user
C11_Witness ==
    /\ prog = "main"
    /\ save_lock = BroadcastLock
    /\ \E b \in bcasts : b.cur = IntKey(2)
    /\ Has(users, IntKey(1)) /\ Get(users, IntKey(1)).free_alerts < 3

\* the numeric filters as C12 lists them
C12_Numeric(info, age) ==
    /\ IF info.fdv < 50000 THEN 5 <= age /\ age <= 70 ELSE 10 <= age /\ age <= 360
    /\ 5000 <= info.fdv /\ info.fdv <= 2000000
    /\ info.vol_5m <= 25000
    /\ info.holders >= 5
    /\ info.liquidity * 100 >= 20 * info.fdv

C12_NewlyAlerted(m) ==
    /\ m \in DOMAIN token_db /\ ~token_db[m].alerted
    /\ m \in DOMAIN token_db' /\ token_db'[m].alerted

C12_PassesAt(m, now) == C12_Numeric(token_db[m], now - token_db[m].launched)

C13_ValidTransfer(resp, txid) ==
    /\ ~resp.raised
    /\ resp.status = "1"
    /\ \E i \in 1..Len(resp.result) :
          /\ Lower(resp.result[i].hash) = Lower(txid)
          /\ resp.result[i].tokenSymbol = "USDT"
          /\ resp.result[i].value >= 29990

\* C13: /pay changes no state (paid, paid_until, free_alerts, the referrer's
\* commissions and stats, revenue) unless the fetched transfer list holds a
\* transaction with the hash of the given TXID, symbol USDT and a value of at
\* least PRICE_PREMIUM; a BscScan error status or an exception during the
\* check changes nothing.
C13_PayNeedsValidTransfer ==
    [][\A uid \in UIDs : \A t \in TxIds : \A r \in BscResponses :
          (main_pay(uid, t, r) /\ ~C13_ValidTransfer(r, t))
              => UNCHANGED <<users, revenue>>]_vars

\* user 2, referred by user 1, has paid: premium is on and the referrer has
\* the commission
C13_Witness ==
    /\ prog = "main"
    /\ Has(users, IntKey(1)) /\ Has(users, IntKey(2))
    /\ Get(users, IntKey(2)).paid
    /\ Get(users, IntKey(2)).free_alerts = 0
    /\ Get(users, IntKey(2)).referrer = IntKey(1)
    /\ Get(users, IntKey(1)).paid_subs = 1
    /\ ~Get(users, IntKey(1)).paid
    /\ revenue = PRICE_PREMIUM

\* the records of data.json whose bsc_wallet is the sender of a Transfer of
\* the receipt to the payment wallet with value >= REQUIRED_USDT
C14_Payers(file, logs) ==
    { i \in 1..Len(webhook_load_data(file)) :
        \E j \in 1..Len(logs) :
            /\ logs[j].to = "WALLET" /\ logs[j].value >= REQUIRED_USDT
            /\ webhook_load_data(file)[i].bsc_wallet = Lower(logs[j].from) }

\* C14: a webhook request with the correct secret, for a transaction whose
\* receipt holds a USDT Transfer to the payment wallet with value >=
\* REQUIRED_USDT, sets the user whose bsc_wallet is the sender paid in
\* data.json and is answered "activated", whatever other user records
\* data.json holds (records with bsc_wallet null included).
C14_PayerActivated ==
    [][\A req \in Requests :
          (/\ usdt_webhook(req)
           /\ req.secret_ok /\ ~req.raised /\ req.send_ok
           /\ C14_Payers(disk, req.logs) # {})
          => /\ webhook'.status = "activated"
             /\ \E i \in C14_Payers(disk, req.logs) :
                   webhook_load_data(disk')[i].paid]_vars

\* C15: no operation of bot.py or main.py removes a user record: a key of
\* users stays a key of users in every later state of the run.
C15_NoUserRemoved == [][KeysOf(users) \subseteq KeysOf(users')]_vars

\* bot.py has two users, and a broadcast has used up free alerts of both
C15_Witness ==
    /\ prog = "bot"
    /\ KeysOf(users) = {IntKey(1), IntKey(2)}
    /\ \A i \in 1..Len(users) : users[i].free_alerts < 3

\* C16: in bot.py the free_alerts counter of every user is >= 0 in every
\* reachable state, also when several process_token tasks of one scanner
\* cycle run broadcast_alert concurrently for different mints.
C16_FreeAlertsNotNegative ==
    prog = "bot" => \A i \in 1..Len(users) : users[i].free_alerts >= 0

\* C17: in main.py broadcast a non-paid user's free_alerts is decremented
\* only when the alert was delivered to that user: a send that fails (the
\* MarkdownV2 attempt and the plain-text fallback of safe_send) does not
\* consume a free alert.
C17_FailedSendKeepsFreeAlert ==
    [][main_send_done(FALSE) =>
          \A k \in KeysOf(users) :
              Get(users', k).free_alerts = Get(users, k).free_alerts]_vars

\* the users of "rest" that a broadcast would still send to, in order
C18_Eligible(us, rest) ==
    SelectSeq(rest, LAMBDA k : Get(us, k).paid \/ Get(us, k).free_alerts > 0)

\* C18: in bot.py broadcast_alert, when the send to one user fails, that
\* user's free_alerts is left unchanged, the failure is swallowed without a
\* retry, and the alert is still sent to every remaining eligible user; the
\* free_alerts of a paid user is never changed by a broadcast.
C18_FailedSendSkipsUser ==
    [][\A b \in bcasts : \A ok \in BOOLEAN :
          bot_send_done(b, ok) =>
            /\ ~ok => Get(users', b.cur).free_alerts = Get(users, b.cur).free_alerts
            /\ ~ok => ~\E c \in bcasts' : c.mint = b.mint /\ c.cur = b.cur
            /\ IF C18_Eligible(users', b.rest) = <<>>
               THEN ~\E c \in bcasts' : c.mint = b.mint
               ELSE \E c \in bcasts' : /\ c.mint = b.mint
                                       /\ c.cur = Head(C18_Eligible(users', b.rest))
            /\ \A k \in KeysOf(users) :
                  Get(users, k).paid =>
                      Get(users', k).free_alerts = Get(users, k).free_alerts]_vars

\* the send of an alert to user 1, who is paid, failed: the counter the
\* webhook wrote is untouched; the alert then went to user 2
C18_Witness ==
    /\ prog = "bot"
    /\ alerts[<<"mA", "gold">>] = 1
    /\ bcasts = {}
    /\ KeyList(users) = <<StrKey(1), StrKey(2)>>
    /\ users[1].paid
    /\ users[1].free_alerts = HOOK_FREE_ALERTS
    /\ delivered[1] = 0
    /\ users[2].free_alerts = 2
    /\ delivered[2] = 1

C19_PaidOnDisk(file) ==
    { u.key : u \in { webhook_load_data(file)[i] :
                        i \in { j \in 1..Len(webhook_load_data(file)) :
                                  webhook_load_data(file)[j].paid } } }

\* C19: a premium activation that webhook.py has written to data.json is not
\* lost: after the next auto_save of the running bot, data.json still records
\* that user as paid.
C19_ActivationSurvivesSave ==
    [][bot_auto_save => C19_PaidOnDisk(disk) \subseteq C19_PaidOnDisk(disk')]_vars

\* C20: writing the state to disk leaves the in-memory state unchanged: after
\* save_data in main.py every token_state[mint]["sent"] is still a set (a
\* later scanner cycle can add a level to it), and after auto_save in bot.py
\* every user record still has the connect_challenge and connect_expiry it
\* had before the save.
C20_SaveLeavesMemory ==
    [][/\ main_auto_save =>
            /\ DOMAIN token_state' = DOMAIN token_state
            /\ \A m \in DOMAIN token_state :
                  /\ token_state'[m].sent = token_state[m].sent
                  /\ ~token_state'[m].as_list
       /\ bot_auto_save =>
            \A i \in 1..Len(users) :
                /\ users'[i].connect_challenge = users[i].connect_challenge
                /\ users'[i].connect_expiry = users[i].connect_expiry]_vars

\* C21: one call of jupiter_buy appends at most one trade to the user's
\* trades (and adds at most 1 to total_trades and one fee to revenue),
\* whatever attempts fail and are retried within the 3-attempt loop.
C21_OneTradePerBuy == \A b \in buying : b.booked <= 1

\* the transfers of the ledger that /pay accepts
C22_Payments ==
    { i \in 1..Len(Ledger) :
        Ledger[i].tokenSymbol = "USDT" /\ Ledger[i].value >= PRICE_PREMIUM }

\* C22: in main.py a payment transaction activates premium for at most one
\* user: once /pay has accepted a TXID for one uid, the same TXID sent by
\* another uid does not set that user's paid flag. With the payments of the
\* ledger, no more users are paid than there are payments.
C22_OneUserPerPayment ==
    prog = "main" =>
        Cardinality({ i \in 1..Len(users) : users[i].paid }) <= Cardinality(C22_Payments)

\* the persons (Telegram ids) that have a record naming person r as referrer
C23_ReferredBy(r) ==
    { users[j].key[2] : j \in { n \in 1..Len(users) : users[n].referrer[2] = r } }

\* C23: in main.py, over any sequence of accepted /pay commands of one
\* referred user, the referrer's commissions_earned grows by PRICE_PREMIUM *
\* REFERRAL_COMMISSION at most once and paid_subs by at most 1: a referrer has
\* no more paid_subs, and no more commissions, than persons referred.
C23_CommissionOncePerUser ==
    prog = "main" =>
        \A i \in 1..Len(users) :
            /\ users[i].paid_subs <= Cardinality(C23_ReferredBy(users[i].key[2]))
            /\ users[i].commissions_earned <=
                  Cardinality(C23_ReferredBy(users[i].key[2]))
                      * ((PRICE_PREMIUM * REFERRAL_COMMISSION_PCT) \div 100)

\* C24: in main.py, over any sequence of /start commands with ref_ codes, no
\* user is their own referrer, no referrals list has a duplicate, and joins
\* of every user R is the number of distinct users whose referrer is R.
C24_ReferralBookkeeping ==
    prog = "main" =>
        \A i \in 1..Len(users) :
            /\ users[i].referrer # users[i].key
            /\ \A a, b \in 1..Len(users[i].referrals) :
                  users[i].referrals[a] = users[i].referrals[b] => a = b
            /\ users[i].joins =
                  Cardinality({ j \in 1..Len(users) : users[j].referrer = users[i].key })

\* watchlist_monitor drops the mint m in this step: it leaves the watchlist
\* and its token_db record is removed
C25_Dropped(m) ==
    /\ Has(watchlist, m)
    /\ ~Has(watchlist', m)
    /\ m \notin DOMAIN token_db'

\* C25: a mint added to the bot.py watchlist is not dropped by
\* watchlist_monitor before WATCH_DURATION (900 s) have passed since its
\* added_at.
C25_WatchedFullDuration ==
    [][\A m \in Mints :
          C25_Dropped(m) => clock - Get(watchlist, m).added_at >= WATCH_DURATION]_vars

\* the mint m was found and its token_db record is gone: watchlist_monitor
\* has dropped it
C26_WasDropped(m) == m \in DOMAIN seen /\ m \notin DOMAIN token_db

\* a mint leaves the watchlist by an alert or by a drop past 900 s since launch
C26_LeavesByAlertOrDrop(m) ==
    (Has(watchlist, m) /\ ~Has(watchlist', m)) =>
        \/ /\ m \in DOMAIN token_db'
           /\ token_db'[m].alerted
           /\ alerts'[<<m, "gold">>] = Inc(alerts[<<m, "gold">>])
        \/ /\ m \notin DOMAIN token_db'
           /\ clock - Get(watchlist, m).launched > WATCH_DURATION

\* C26: every mint added to the bot.py watchlist is eventually removed from
\* it, either by a recheck that passes the filters (alerted and popped) or by
\* the drop of watchlist_monitor, with its token_db record, once its age since
\* launch exceeds 900 s; a dropped mint is never alerted afterwards.
C26_EventuallyRemoved ==
    /\ \A m \in Mints : Has(watchlist, m) ~> ~Has(watchlist, m)
    /\ [][\A m \in Mints :
            /\ C26_LeavesByAlertOrDrop(m)
            /\ C26_WasDropped(m) => alerts'[<<m, "gold">>] = alerts[<<m, "gold">>]]_vars

\* one mint was alerted at a recheck while another one has been dropped
C26_Witness ==
    \E m1, m2 \in Mints :
        /\ m1 \in DOMAIN token_db /\ token_db[m1].alerted
        /\ alerts[<<m1, "gold">>] = 1
        /\ C26_WasDropped(m2)
        /\ ~Has(watchlist, m1) /\ ~Has(watchlist, m2)

\* the FDV, volume, holders and liquidity tests with the configured settings
C27_ConfiguredOk(info) ==
    /\ BOT_MIN_FDVS_SNIPE <= info.fdv /\ info.fdv <= BOT_MAX_FDVS_SNIPE
    /\ ~(info.vol_5m > BOT_MAX_VOL_SNIPE)
    /\ ~(info.holders < BOT_MIN_HOLDERS)
    /\ ~(info.liquidity * 100 < info.fdv * BOT_LIQ_FDV_PCT)

\* C27: process_token of bot.py rejects a token on FDV, volume, holders or
\* liquidity exactly when fdv is outside [MIN_FDVS_SNIPE, MAX_FDVS_SNIPE] =
\* [5,000, 3,000,000], vol_5m > MAX_VOL_SNIPE, holders < MIN_HOLDERS or
\* liquidity < LIQ_FDV_RATIO * fdv: a record that is inside its age window and
\* passes the name filters is alerted iff it passes the configured settings.
C27_FilterFollowsSettings ==
    [][\A t \in tasks :
          ( /\ bot_process_token(t)
            /\ t.mint \in DOMAIN token_db
            /\ ~token_db[t.mint].alerted
            /\ AgeWindowOk(token_db[t.mint].fdv, t.now - token_db[t.mint].launched)
            /\ ~SymbolFiltered(token_db[t.mint].symbol, token_db[t.mint].fdv) )
          => (token_db'[t.mint].alerted <=> C27_ConfiguredOk(token_db[t.mint]))]_vars

\* the pair passes the tests that come before the rug check
C28_Checked(pair) ==
    /\ scan.pc = "pairs" /\ scan.todo > 0
    /\ pair.mint \notin DOMAIN seen
    /\ pair.age_parses /\ pair.age_min >= 1
    /\ pair.has_addr

\* the level of the claim; earlier holds the volume samples taken before
C28_Level(fdv, vol_5m, earlier) ==
    IF fdv >= 2500 /\ vol_5m <= 80 THEN "snipe"
    ELSE IF fdv >= 8000 /\ vol_5m >= 250 THEN "confirm"
    ELSE IF /\ earlier # <<>>
            /\ vol_5m >= 3 * earlier[Len(earlier)]
            /\ vol_5m >= 700 THEN "pump"
    ELSE "none"

C28_Decision(pair, whale) ==
    LET m    == pair.mint
        lvl  == C28_Level(pair.fdv, pair.h6 \div 72, HistOf(m))
        sent == IF m \in DOMAIN token_state THEN token_state[m].sent ELSE {}
        list == m \in DOMAIN token_state /\ token_state[m].as_list
    IN
    IF whale >= 1200
    THEN alerts' = [alerts EXCEPT ![<<m, "whale">>] = Inc(@)]
    ELSE \/ /\ lvl = "none" \/ lvl \in sent \/ list
            /\ alerts' = alerts
         \/ /\ lvl # "none" /\ lvl \notin sent
            /\ alerts' = [alerts EXCEPT ![<<m, lvl>>] = Inc(@)]

\* C28: in main.py, for a mint that passed the rug check, a detected buy of
\* at least MIN_WHALE_USD (1200) gives a whale alert and no level alert;
\* otherwise the level is snipe iff fdv >= 2500 and vol_5m <= 80, else confirm
\* iff fdv >= 8000 and vol_5m >= 250, else pump iff an earlier volume sample
\* exists and vol_5m >= 3 x that sample and vol_5m >= 700, else there is no
\* alert; a level alert is broadcast only if the level is not yet in
\* token_state[mint].sent.
C28_AlertDecision ==
    [][\A pair \in PairInputs : \A whale \in WhaleBuys :
          (main_scan_pair(pair, TRUE, whale) /\ C28_Checked(pair))
              => C28_Decision(pair, whale)]_vars

\* a mint got its snipe alert and, after its seen entry was evicted, a pump
\* alert; another mint got a whale alert
C28_Witness ==
    \E m1, m2 \in Mints :
        /\ alerts[<<m1, "snipe">>] = 1 /\ alerts[<<m1, "pump">>] = 1
        /\ alerts[<<m2, "whale">>] >= 1 /\ alerts[<<m2, "confirm">>] >= 1

\* the rug check of the claim did not return SAFE
C29_Failed(a) == a.raised \/ a.status # 200 \/ ~is_rug_proof(a)

\* C29: in main.py no alert (whale or level) is broadcast for a mint whose
\* rug check did not return SAFE, a non-200 answer or an exception inside
\* is_rug_proof counting as a failed check; the mint is in seen by then, and a
\* mint that is in seen is not checked again (no alert, no volume sample)
\* as long as its seen entry is there.
C29_FailClosed ==
    [][\A pair \in WhalePairs : \A a \in RugAnswers : \A whale \in WhaleBuys :
          main_scan_pair(pair, is_rug_proof(a), whale) =>
              /\ (C28_Checked(pair) /\ C29_Failed(a)) =>
                    /\ alerts' = alerts
                    /\ bcasts' = bcasts
                    /\ volume_hist' = volume_hist
                    /\ pair.mint \in DOMAIN seen' /\ seen'[pair.mint] = scan.now
              /\ pair.mint \in DOMAIN seen =>
                    /\ alerts' = alerts
                    /\ bcasts' = bcasts
                    /\ seen' = seen
                    /\ volume_hist' = volume_hist]_vars

\* a mint failed its rug check and has had no alert, while the other mint
\* passed and was alerted
C29_Witness ==
    \E m1, m2 \in Mints :
        /\ m1 \in DOMAIN seen /\ AlertsOf(m1) = 0 /\ m1 \notin DOMAIN token_state
        /\ m1 \notin DOMAIN volume_hist
        /\ AlertsOf(m2) >= 1

\* the connect link of user uid was built and has not expired
C30_LinkOpen(uid) ==
    /\ Has(users, IntKey(uid))
    /\ Get(users, IntKey(uid)).connect_challenge = ConnectChallenge(uid)
    /\ clock <= Get(users, IntKey(uid)).connect_expiry

\* C30: in bot.py, when a user comes back through the redirect link (/start
\* connect_<uid>) after approving the connection, users[uid].wallet is set,
\* so that a later buy no longer answers "Connect wallet first.".
C30_RedirectSetsWallet ==
    [][\A uid \in UIDs :
          (C30_LinkOpen(uid) /\ bot_start_connect(uid, uid))
              => Get(users', IntKey(uid)).wallet # ""]_vars

====
